---- MODULE Spec2Model ----
(***************************************************************************)
(* State-machine model of the eCourts case scraper (src/app.py): the       *)
(* Streamlit session state, the Selenium browser sessions, the listing     *)
(* paginator, the hearing-date filter and the per-row capture workflow.    *)
(*                                                                         *)
(* A Streamlit script run is one handler.  `run` is the position of the    *)
(* script: "idle" (the run ended, the page waits for the user), "pending"  *)
(* (st.rerun() was called, or the user caused a rerun: the script is about *)
(* to run again) and "scraping" (inside the while loop of                  *)
(* process_scraping) and "filtering" (after that loop).  A widget          *)
(* interaction is taken between script runs only.                          *)
(*                                                                         *)
(* The browser, the network and the database are the environment: a        *)
(* primitive either works or fails (returns an error value or raises), and *)
(* an exception no handler catches ends the script run with the session    *)
(* state as it was left.  The code never quits a browser, so `alive` of a  *)
(* browser never changes.                                                  *)
(***************************************************************************)
EXTENDS Integers, Sequences, FiniteSets, TLC

VARIABLES
    site,                 \* the portal: the listing pages it serves, by number in PageTable
    today,                \* datetime.date.today()
    current_step,         \* st.session_state.current_step
    captured_cases,       \* st.session_state.captured_cases
    matches,              \* st.session_state.matches
    all_cases,            \* st.session_state.all_cases
    driver,               \* st.session_state.driver (0 is None, else a handle)
    capture_in_progress,  \* st.session_state.capture_in_progress
    current_case_index,   \* st.session_state.current_case_index
    captcha_value,        \* st.session_state.captcha_value
    drivers,              \* every browser created by setup_driver, by handle
    run,                  \* position of the Streamlit script
    page_index,           \* local page_index of process_scraping
    scraped,              \* local all_cases of process_scraping
    db,                   \* rows of the cases table of ecourts_data.db
    notice,               \* the last st.error / status message shown
    trace,                \* primitives called by the latest row capture
    hist,                 \* bookkeeping of the run (counters, never read by the program)
    probe                 \* a page text handed to extract_case_details and what it returned

vars == << site, today, current_step, captured_cases, matches, all_cases, driver,
           capture_in_progress, current_case_index, captcha_value, drivers, run,
           page_index, scraped, db, notice, trace, hist, probe >>

session == << current_step, captured_cases, matches, all_cases, driver,
              capture_in_progress, current_case_index, captcha_value >>

----------------------------------------------------------------------------
(* Bounds of the model *)

\* browsers created in one behaviour
MaxDrivers == 2
\* primitive failures (exceptions, failed snapshots) injected in one behaviour
MaxFaults == 1
\* "Start Automatic Capture" clicks in one behaviour
MaxBatches == 1
\* listing pages of a portal
MaxSitePages == 2
\* atoms of a page text searched for the CNR number
MaxTextLen == 4

----------------------------------------------------------------------------
(* Values *)

\* next_hearing_date = None
NoDate == 0
\* a detail field left None
None == "None"
\* max_pages = 10  # Safety limit
max_pages == 10

\* text is a sequence of one-character strings
IsPrefixAt(s, t, i) ==
    /\ i + Len(s) - 1 <= Len(t)
    /\ \A k \in 1..Len(s) : t[i + k - 1] = s[k]

\* Python `s in t`, XPath contains(., 's')
Contains(t, s) == \E i \in 1..(Len(t) + 1) : IsPrefixAt(s, t, i)

RECURSIVE Digits(_)
Digits(n) == IF n < 10 THEN << n >> ELSE Digits(n \div 10) \o << n % 10 >>

DigitChar(d) == << "0", "1", "2", "3", "4", "5", "6", "7", "8", "9" >>[d + 1]

\* the text a listing shows for a date: its day number
DateText(d) == IF d = NoDate THEN << "-" >>
               ELSE [i \in 1..Len(Digits(d)) |-> DigitChar(Digits(d)[i])]

RECURSIVE Flatten(_)
Flatten(ss) == IF ss = << >> THEN << >> ELSE Head(ss) \o Flatten(Tail(ss))

----------------------------------------------------------------------------
(* The portal.  A listing row (a <tr> after the header row) shows a serial *)
(* label, a hearing date and some links; its detail page carries labelled  *)
(* fields, hyperlinks and back controls.                                   *)

LinkText(l) == CASE l = "View" -> << "V", "i", "e", "w" >>
                 [] l = "Open" -> << "O", "p", "e", "n" >>
                 [] OTHER      -> << >>

\* row.text: the text of the <tr> as rendered, without a cell that is not shown
RowText(tr) ==
    (IF tr.shown THEN tr.serial ELSE << >>) \o << " " >> \o DateText(tr.date)
      \o Flatten([i \in 1..Len(tr.links) |-> << " " >> \o LinkText(tr.links[i])])

\* the five keys of `details` in extract_case_details
DetailKeys == { "CNR Number", "Case Type", "Court Number and Judge",
                "Filing Number", "Registration Number" }

FullText == [k \in DetailKeys |-> "v"]
BareText == [k \in DetailKeys |-> IF k = "Case Type" THEN "v" ELSE None]

\* detail pages: the value each label resolves to, the hrefs of the <a> elements
\* in document order, and which of the five back selectors match an element
Href(b, x) == [base |-> b, ext |-> x]

DetailA == [fields |-> FullText, hrefs |-> << >>, back |-> {1}]
DetailB == [fields |-> BareText,
            hrefs |-> << Href("a", "pdf"), Href("c", "html"), Href("b", "PDF") >>,
            back |-> {}]
DetailC == [fields |-> FullText, hrefs |-> << Href("a", "pdf") >>, back |-> {2, 5}]

\* shown: the serial cell is rendered (WebElement.text leaves out what is not,
\* XPath and BeautifulSoup read it all the same)
Row(s, d, l, dt) == [serial |-> s, date |-> d, links |-> l, detail |-> dt, shown |-> TRUE]

Row1  == Row(<< "1" >>, 10, << "View" >>, DetailB)
Row2  == Row(<< "2" >>, 11, << "View" >>, DetailC)
Row3  == Row(<< "3" >>, 11, << >>, DetailA)
Row4  == [Row(<< "4" >>, 12, << "View" >>, DetailA) EXCEPT !.shown = FALSE]
Row5  == Row(<< "5" >>, NoDate, << "View" >>, DetailA)
Row6  == Row(<< "2" >>, 11, << "", "Open" >>, DetailA)
Row10 == Row(<< "1", "0" >>, 10, << "View" >>, DetailC)

\* next: the next-page control of the page.  "text" is a link labelled Next,
\* "class" a link found only by class/aria-label, "...Disabled" the same control
\* not enabled, "none" no control.  loop: the control is still there on the
\* portal's last page, and a click on it leaves that page displayed.
Page(r, n, l, c) == [rows |-> r, next |-> n, loop |-> l, court |-> c]

\* the listing pages a portal is made of
PageTable == <<
    Page(<< Row1, Row3, Row2 >>, "text", FALSE, "District Court"),
    Page(<< Row4, Row5 >>, "class", FALSE, "Unknown Court"),
    Page(<< Row6, Row10, Row1 >>, "textDisabled", FALSE, "Unknown Court"),
    Page(<< Row5 >>, "classDisabled", TRUE, "District Court"),
    Page(<< >>, "text", TRUE, "Unknown Court") >>

Pages == 1..Len(PageTable)

RECURSIVE SeqsUpTo(_, _)
SeqsUpTo(S, n) ==
    IF n = 0 THEN { << >> }
    ELSE LET shorter == SeqsUpTo(S, n - 1)
         IN  shorter \cup { Append(q, x) : q \in shorter, x \in S }

Sites == SeqsUpTo(Pages, MaxSitePages) \ { << >> }

Todays == { 10, 11 }

\* listing page pg of the portal
SitePage(pg) == PageTable[site[pg]]

\* the next-page control the browser finds on listing page pg
NextControl(pg) ==
    IF pg < Len(site) \/ SitePage(pg).loop THEN SitePage(pg).next ELSE "none"

\* the listing page displayed after a click on the next-page control of page pg
AfterNext(pg) ==
    IF pg < Len(site) /\ SitePage(pg).next \in { "text", "class" } THEN pg + 1 ELSE pg

----------------------------------------------------------------------------
(* Browsers.  loc is what the browser displays: "blank", the "portal" form, *)
(* listing page pg ("list") or the detail page of row `row` of listing page *)
(* pg ("detail").                                                           *)

Loc(k, p, r) == [kind |-> k, pg |-> p, row |-> r]
Blank == Loc("blank", 0, 0)
Portal == Loc("portal", 0, 0)

Browser(l) == [alive |-> TRUE, loc |-> l]

\* the browser of the session, and the same with its display changed
Here == drivers[driver].loc
Moved(l) == [drivers EXCEPT ![driver].loc = l]

\* the <tr> elements of the displayed page, in document order
DomRows(l) == IF l.kind = "list" THEN SitePage(l.pg).rows ELSE << >>

LiveDrivers == { d \in 1..Len(drivers) : drivers[d].alive }

----------------------------------------------------------------------------
(* extract_case_details on the text of a page *)

\* soup.get_text(" ", strip=True) as a sequence of atoms: a label, a word, a
\* 16-character token, the CNR note, or a single punctuation character
cnr_note == "(Note the CNR number"
\* 16 characters of A-Z and 0-9
UpperTokens == { "MHAU010012342024", "DLCT020045672023" }
\* 16 alphanumeric characters, some of them lower-case letters
MixedTokens == { "mhau010012342024" }

\* re.IGNORECASE on the literal parts of a pattern
Fold(a) ==
    IF a = "case type" THEN "Case Type"
    ELSE IF a = "filing number" THEN "Filing Number"
    ELSE IF a = "(note the cnr number" THEN cnr_note
    ELSE a

\* the atom starts with "(" : outside every character class of the patterns
IsNote(a) == Fold(a) = cnr_note
\* [:\-\s]
IsSepChar(a) == a \in { ":", "-", " " }
\* [A-Za-z0-9\/\.\-\s]
IsValueChar(a) == a \notin { ":", "|" } /\ ~IsNote(a)
\* the last and the first character of the atom are \w
EndsWord(a) == a \notin { ":", "-", " ", "|" }
StartsWord(a) == a \notin { ":", "-", " ", "|" } /\ ~IsNote(a)

LastOf(S) == IF S = {} THEN 0 ELSE CHOOSE i \in S : \A j \in S : i >= j

\* [:\-\s]* from atom s on: the end of the longest run (s - 1: empty)
SepRunEnd(t, s) ==
    LastOf({ e \in (s - 1)..Len(t) : \A k \in s..e : IsSepChar(t[k]) })

\* [A-Za-z0-9\/\.\-\s]+ from atom s on: the end of the longest run (s - 1: none)
ValueRunEnd(t, s) ==
    LastOf({ e \in (s - 1)..Len(t) : \A k \in s..e : IsValueChar(t[k]) })

\* str.strip()
Strip(g) ==
    LET inked == { k \in 1..Len(g) : g[k] # " " }
    IN  IF inked = {} THEN << >>
        ELSE SubSeq(g, CHOOSE i \in inked : \A j \in inked : i <= j, LastOf(inked))

\* a value that stayed None
Absent == << None >>

\* group(1) of key[:\-\s]*([A-Za-z0-9\/\.\-\s]+) with the key at atom i: both
\* quantifiers are greedy, and the separators give back their last character
\* of the value class when no value character follows them
GroupAt(t, i) ==
    LET sepEnd == SepRunEnd(t, i + 1)
        valEnd == ValueRunEnd(t, sepEnd + 1)
        given  == { k \in (i + 1)..sepEnd : IsValueChar(t[k]) }
    IN  IF valEnd > sepEnd THEN [ok |-> TRUE, group |-> SubSeq(t, sepEnd + 1, valEnd)]
        ELSE IF given # {} THEN [ok |-> TRUE, group |-> << t[LastOf(given)] >>]
        ELSE [ok |-> FALSE, group |-> << >>]

\* pattern.search(text) and m.group(1).strip(): the leftmost match
PatternSearch(t, key) ==
    LET hits == { i \in 1..Len(t) : Fold(t[i]) = key /\ GroupAt(t, i).ok }
    IN  IF hits = {} THEN Absent
        ELSE Strip(GroupAt(t, CHOOSE i \in hits : \A j \in hits : i <= j).group)

\* \b before the atom at i
BoundaryBefore(t, i) == i = 1 \/ ~EndsWord(t[i - 1])

\* re.search(r'\b([A-Z0-9]{16})\s*\(Note the CNR number', text, re.IGNORECASE):
\* the position of the leftmost match, 0 for no match
cnr_match(t) ==
    LET hits == { i \in 1..Len(t) :
                    /\ t[i] \in UpperTokens \cup MixedTokens
                    /\ BoundaryBefore(t, i)
                    /\ \E j \in (i + 1)..Len(t) :
                         /\ IsNote(t[j])
                         /\ \A k \in (i + 1)..(j - 1) : t[k] = " " }
    IN  IF hits = {} THEN 0 ELSE CHOOSE i \in hits : \A j \in hits : i <= j

\* re.search(r'\b[A-Z0-9]{16}\b', text): no flag, upper case and digits only
fallback(t) ==
    LET hits == { i \in 1..Len(t) :
                    /\ t[i] \in UpperTokens
                    /\ BoundaryBefore(t, i)
                    /\ (i = Len(t) \/ ~StartsWord(t[i + 1])) }
    IN  IF hits = {} THEN 0 ELSE CHOOSE i \in hits : \A j \in hits : i <= j

\* the details dict extract_case_details builds from the page text
ExtractFromText(t) ==
    [key \in DetailKeys |->
        IF key = "CNR Number"
        THEN IF cnr_match(t) # 0 THEN << t[cnr_match(t)] >>
             ELSE IF fallback(t) # 0 THEN << t[fallback(t)] >>
             ELSE Absent
        ELSE PatternSearch(t, key)]

\* page texts that differ in tokens, notes and what stands between them
CnrTexts ==
    SeqsUpTo(UpperTokens \cup MixedTokens \cup { cnr_note, " ", "Civil" }, MaxTextLen)

\* page texts with a Case Type and a Filing Number, and the same two
\* label-value pairs in the other order
FieldValues == { << "Civil" >>, << "123/2024" >>, << "Civil", " ", "Suit" >> }
FieldSeps == { << ":", " " >>, << " " >>, << " ", "-", " " >> }
FieldDelims == { << " " >>, << " ", "|", " " >> }
CaseTypeLabels == { "Case Type", "case type" }
Pair(label, sep, value) == << label >> \o sep \o value

Unread(text, swapped) ==
    [text |-> text, swapped |-> swapped, done |-> FALSE,
     details |-> [key \in DetailKeys |-> Absent],
     swapped_details |-> [key \in DetailKeys |-> Absent]]

\* no page text under inspection
NoProbe == Unread(<< >>, << >>)

Probes ==
    { Unread(t, t) : t \in CnrTexts }
    \cup { Unread(Pair(x[1], x[2], x[3]) \o x[5] \o Pair("Filing Number", x[2], x[4]),
                  Pair("Filing Number", x[2], x[4]) \o x[5] \o Pair(x[1], x[2], x[3])) :
           x \in CaseTypeLabels \X FieldSeps \X FieldValues \X FieldValues \X FieldDelims }


----------------------------------------------------------------------------
(* Initial state: main() has filled the session-state defaults. *)

NoHist == [faults |-> 0, batches |-> 0, extracted |-> 0, clicks |-> 0,
           attempts |-> << >>]

Init ==
    /\ site \in Sites
    /\ today \in Todays
    /\ current_step = 1
    /\ captured_cases = << >>
    /\ matches = << >>
    /\ all_cases = << >>
    /\ driver = 0
    /\ capture_in_progress = FALSE
    /\ current_case_index = 0
    /\ captcha_value = ""
    /\ drivers = << >>
    /\ run = "idle"
    /\ page_index = 0
    /\ scraped = << >>
    /\ db = << >>
    /\ notice = ""
    /\ trace = << >>
    /\ hist = NoHist
    /\ probe = NoProbe

\* one more injected primitive failure
Fault == /\ hist.faults < MaxFaults
         /\ hist' = [hist EXCEPT !.faults = @ + 1]

----------------------------------------------------------------------------
(* Step 1: session bootstrap *)

\* setup_driver handing back a browser object although webdriver.Chrome raised
SetupDriverHalfOpen(ok) == Append(drivers, [alive |-> ok, loc |-> Blank])

\* setup_driver: webdriver.Chrome(...) returns a browser or raises, and
\* setup_driver returns the browser or None
SetupDriver(ok) == IF ok THEN Append(drivers, Browser(Blank)) ELSE drivers

\* "Initialize Browser Session" clicked
ClickInitialize ==
    /\ run = "idle"
    /\ current_step = 1
    /\ Len(drivers) < MaxDrivers
    /\ \E created \in BOOLEAN, loaded \in BOOLEAN :
         LET ds  == SetupDriver(created)
             d   == Len(ds)
             got == Len(ds) > Len(drivers)
         IN  IF ~got
             THEN /\ notice' = "Failed to initialize Chrome driver"
                  /\ UNCHANGED << drivers, driver, current_step, run >>
             ELSE /\ driver' = d
                  /\ IF loaded
                     THEN /\ drivers' = [ds EXCEPT ![d].loc = Portal]
                          /\ current_step' = 2
                          /\ notice' = "Browser session started successfully!"
                          /\ run' = "pending"
                     ELSE /\ drivers' = ds
                          /\ notice' = "Error loading eCourts website"
                          /\ UNCHANGED << current_step, run >>
    /\ UNCHANGED << probe, site, today, captured_cases, matches, all_cases,
                    capture_in_progress, current_case_index, captcha_value,
                    page_index, scraped, db, trace, hist >>

\* any other widget interaction (the sidebar): Streamlit runs the script again
UserRerun ==
    /\ run = "idle"
    /\ run' = "pending"
    /\ UNCHANGED << probe, site, today, session, drivers, page_index, scraped, db,
                    notice, trace, hist >>

\* a script run that only draws the page: steps 1 and 2, and display_scraped_cases
Render ==
    /\ run = "pending"
    /\ \/ current_step \in { 1, 2 }
       \/ current_step = 4 /\ ~capture_in_progress
    /\ run' = "idle"
    /\ UNCHANGED << probe, site, today, session, drivers, page_index, scraped, db,
                    notice, trace, hist >>

----------------------------------------------------------------------------
(* Step 2: the CAPTCHA answer *)

CaptchaAnswers == { "", "x7Kp" }

\* "Submit CAPTCHA and Scrape" clicked with the text input holding v
SubmitCaptcha ==
    /\ run = "idle"
    /\ current_step = 2
    /\ driver # 0
    /\ \E v \in CaptchaAnswers :
         IF v # ""
         THEN /\ current_step' = 3
              /\ captcha_value' = v
              /\ run' = "pending"
              /\ UNCHANGED notice
         ELSE /\ notice' = "Please enter CAPTCHA value"
              /\ UNCHANGED << current_step, captcha_value, run >>
    /\ UNCHANGED << probe, site, today, captured_cases, matches, all_cases, driver,
                    capture_in_progress, current_case_index, drivers,
                    page_index, scraped, db, trace, hist >>

----------------------------------------------------------------------------
(* Step 3: process_scraping *)

\* extract_cases_from_soup on the displayed page
ExtractCases(l) ==
    LET trs == DomRows(l)
    IN  [i \in 1..Len(trs) |->
            [serial |-> trs[i].serial,
             cols |-> << trs[i].serial, DateText(trs[i].date) >>,
             court_name |-> SitePage(l.pg).court,
             next_hearing_date |-> trs[i].date]]

\* FilterMatches with `listed == tomorrow` forgotten
FilterTodayOnly(cases, day) ==
    SelectSeq(cases, LAMBDA c : c.next_hearing_date # NoDate /\ c.next_hearing_date = day)

\* the filter loop of process_scraping: rows listed today or tomorrow
RECURSIVE FilterMatches(_, _)
FilterMatches(cases, day) ==
    IF cases = << >> THEN << >>
    ELSE LET c        == Head(cases)
             listed   == c.next_hearing_date
             tomorrow == day + 1
             rest     == FilterMatches(Tail(cases), day)
         IN  IF listed # NoDate /\ (listed = day \/ listed = tomorrow)
             THEN << c >> \o rest
             ELSE rest

\* the script reaches process_scraping: fill the CAPTCHA, choose the case type
ProcessScrapingStart ==
    /\ run = "pending"
    /\ current_step = 3
    /\ matches = << >>
    /\ \E found \in BOOLEAN :
         IF found
         THEN /\ drivers' = Moved(Loc("list", 1, 0))
              /\ scraped' = << >>
              /\ page_index' = 1
              /\ run' = "scraping"
              /\ notice' = "Scraping cases from pages..."
              /\ hist' = [hist EXCEPT !.extracted = 0, !.clicks = 0]
         ELSE /\ notice' = "Error during scraping"
              /\ run' = "idle"
              /\ UNCHANGED << drivers, scraped, page_index, hist >>
    /\ UNCHANGED << probe, site, today, session, db, trace >>

\* LoopGuard off by one: one page more than max_pages
LoopGuardOffByOne == page_index <= max_pages + 1

\* while page_index <= max_pages
LoopGuard == page_index <= max_pages

\* one iteration of the pagination loop
ScrapePage ==
    /\ run = "scraping"
    /\ LoopGuard
    /\ \/ \* driver.page_source raises: the except of process_scraping
          /\ Fault
          /\ notice' = "Error during scraping"
          /\ run' = "idle"
          /\ UNCHANGED << drivers, scraped, page_index >>
       \/ LET nc      == NextControl(Here.pg)
              clicked == nc \in { "text", "class", "classDisabled" }
          IN  /\ scraped' = scraped \o ExtractCases(Here)
              /\ IF clicked
                 THEN /\ drivers' = Moved(Loc("list", AfterNext(Here.pg), 0))
                      /\ page_index' = page_index + 1
                      /\ run' = "scraping"
                 ELSE /\ run' = "filtering"
                      /\ UNCHANGED << drivers, page_index >>
              /\ hist' = [hist EXCEPT !.extracted = @ + 1,
                                      !.clicks = @ + (IF clicked THEN 1 ELSE 0)]
              /\ UNCHANGED notice
    /\ UNCHANGED << probe, site, today, session, db, trace >>

\* the while condition fails: the ceiling is reached
ScrapeCeiling ==
    /\ run = "scraping"
    /\ ~LoopGuard
    /\ run' = "filtering"
    /\ UNCHANGED << probe, site, today, session, drivers, page_index, scraped, db,
                    notice, trace, hist >>

\* StepAfterScraping going on to the capture step with nothing to capture
StepAlwaysCapture(found) == 4

\* the step process_scraping sets once the rows are filtered: 4 with matches,
\* back to 1 without
StepAfterScraping(found) == IF found # << >> THEN 4 ELSE 1

\* after the loop: filter, store, choose the next step
FilterCases ==
    /\ run = "filtering"
    /\ LET found == FilterMatches(scraped, today)
       IN  /\ matches' = found
           /\ all_cases' = scraped
           /\ current_step' = StepAfterScraping(found)
           /\ IF StepAfterScraping(found) = 4
              THEN /\ run' = "pending"
                   /\ notice' = "Found cases with next hearing today or tomorrow"
              ELSE /\ run' = "idle"
                   /\ notice' = "No cases found with next hearing today or tomorrow"
    /\ UNCHANGED << probe, site, today, captured_cases, driver, capture_in_progress,
                    current_case_index, captcha_value, drivers, page_index,
                    scraped, db, trace, hist >>

----------------------------------------------------------------------------
(* Locators *)

HasView(tr) == \E k \in 1..Len(tr.links) : Contains(LinkText(tr.links[k]), << "V", "i", "e", "w" >>)

\* the <td> cells of a row: the serial, the date, the links
Tds(tr) == << tr.serial, DateText(tr.date),
              Flatten([i \in 1..Len(tr.links) |-> LinkText(tr.links[i])]) >>

\* the least element of a non-empty set of row numbers, 0 for none
First(S) == IF S = {} THEN 0 ELSE CHOOSE i \in S : \A j \in S : i <= j

\* strategy 1: the first View link whose enclosing row's text contains the label
Strategy1(trs, serial) ==
    First({ i \in 1..Len(trs) : HasView(trs[i]) /\ Contains(RowText(trs[i]), serial) })

\* //td[contains(., serial)]: the row of the first cell that contains the label
SerialRow(trs, serial) ==
    First({ i \in 1..Len(trs) : \E c \in 1..3 : Contains(Tds(trs[i])[c], serial) })

\* strategy 2: a View link inside that row
Strategy2(trs, serial) ==
    LET r == SerialRow(trs, serial)
    IN  IF r # 0 /\ HasView(trs[r]) THEN r ELSE 0

\* strategy 3: any link of that row with non-empty text
Strategy3(trs, serial) ==
    LET r == SerialRow(trs, serial)
    IN  IF r # 0 /\ \E k \in 1..Len(trs[r].links) : LinkText(trs[r].links[k]) # << >>
        THEN r ELSE 0

\* FindAndClickViewButton trying "any link of the labelled row" first
FindAnyLinkFirst(trs, serial) ==
    LET r1 == Strategy1(trs, serial)
        r2 == Strategy2(trs, serial)
        r3 == Strategy3(trs, serial)
    IN  IF r3 # 0 THEN [found |-> TRUE, row |-> r3, strategy |-> 3]
        ELSE IF r1 # 0 THEN [found |-> TRUE, row |-> r1, strategy |-> 1]
        ELSE IF r2 # 0 THEN [found |-> TRUE, row |-> r2, strategy |-> 2]
        ELSE [found |-> FALSE, row |-> 0, strategy |-> 0]

\* find_and_click_view_button: which row's control was clicked, by which strategy
FindAndClickViewButton(trs, serial) ==
    LET r1 == Strategy1(trs, serial)
        r2 == Strategy2(trs, serial)
        r3 == Strategy3(trs, serial)
    IN  IF r1 # 0 THEN [found |-> TRUE, row |-> r1, strategy |-> 1]
        ELSE IF r2 # 0 THEN [found |-> TRUE, row |-> r2, strategy |-> 2]
        ELSE IF r3 # 0 THEN [found |-> TRUE, row |-> r3, strategy |-> 3]
        ELSE [found |-> FALSE, row |-> 0, strategy |-> 0]

\* AfterLookup of a lookup that only resolves the control and clicks nothing
LookupWithoutClick(here, look) == here

\* the page displayed when find_and_click_view_button returns: it clicks the
\* link it found before returning True
AfterLookup(here, look) ==
    IF look.found THEN Loc("detail", here.pg, look.row) ELSE here

\* the five XPath selectors of click_back_button, in the order of the list
back_selectors ==
    << "find_back_1", "find_back_2", "find_back_3", "find_back_4", "find_back_5" >>

\* click_back_button and the driver.back() of its caller.  present: the back
\* selectors that match; hb: what driver.back() does ("ok", "second": it raises
\* once and then works, "raise": it raises every time)
\* steps: one find_back_k for every selector whose find_element ran, then the
\* click of the control found or the driver.back() calls ("history_back" for a
\* call that navigated, "history_back_raised" for one that raised)
ClickBackButton(present, hb) ==
    LET finds == SubSeq(back_selectors, 1,
                        IF present # {} THEN First(present) ELSE Len(back_selectors))
    IN  IF present # {}
        THEN [steps |-> finds \o << "back_control" >>,
              selector |-> First(present), returned |-> TRUE]
        ELSE IF hb = "ok"
        THEN [steps |-> finds \o << "history_back" >>, selector |-> 0, returned |-> TRUE]
        ELSE IF hb = "second"
        THEN [steps |-> finds \o << "history_back_raised", "history_back" >>,
              selector |-> 0, returned |-> TRUE]
        ELSE [steps |-> finds \o << "history_back_raised", "history_back_raised" >>,
              selector |-> 0, returned |-> FALSE]

----------------------------------------------------------------------------
(* capture_case_details_automated *)

Lower(x) == IF x = "PDF" THEN "pdf" ELSE x

\* the hrefs that end in .pdf, in document order
RECURSIVE PdfLinks(_, _)
PdfLinks(hrefs, i) ==
    IF i > Len(hrefs) THEN << >>
    ELSE (IF Lower(hrefs[i].ext) = "pdf" THEN << i >> ELSE << >>) \o PdfLinks(hrefs, i + 1)

\* download_file: local_name = DOWNLOAD_DIR / basename of the URL path
LocalName(h) == << "downloads", h.base, h.ext >>

\* Downloaded with a break at the first failed download
RECURSIVE DownloadedUntilFailure(_, _, _)
DownloadedUntilFailure(hrefs, links, failed) ==
    IF links = << >> \/ Head(links) \in failed THEN << >>
    ELSE << LocalName(hrefs[Head(links)]) >>
           \o DownloadedUntilFailure(hrefs, Tail(links), failed)

\* the download loop: the local paths of the links download_file fetched
RECURSIVE Downloaded(_, _, _)
Downloaded(hrefs, links, failed) ==
    IF links = << >> THEN << >>
    ELSE (IF Head(links) \in failed THEN << >> ELSE << LocalName(hrefs[Head(links)]) >>)
           \o Downloaded(hrefs, Tail(links), failed)

\* extract_case_details: the dict of the five keys
ExtractCaseDetails(detail) == [k \in DetailKeys |-> detail.fields[k]]

CompletedRecord(case, details, pdf_saved, pdfs) ==
    [Serial_Number |-> case.serial,
     Details |-> details,
     Court_Name |-> case.court_name,
     Next_Hearing_Date |-> case.next_hearing_date,
     PDF_Saved |-> pdf_saved,
     Additional_PDFs |-> Len(pdfs),
     Status |-> "Completed"]

FailedRecord(case) ==
    [Serial_Number |-> case.serial,
     Details |-> [k \in DetailKeys |-> None],
     Court_Name |-> case.court_name,
     Next_Hearing_Date |-> case.next_hearing_date,
     PDF_Saved |-> FALSE,
     Additional_PDFs |-> 0,
     Status |-> "Failed - No View Button"]

\* the row save_case_to_db inserts
DbRow(case, details, pdf_path, pdfs) ==
    [serial |-> case.serial, details |-> details, court_name |-> case.court_name,
     next_hearing_date |-> case.next_hearing_date,
     pdf_path |-> pdf_path, additional_pdfs |-> pdfs]

\* what the environment does during one row: snap (Page.printToPDF works),
\* src (page_source can be read), failed (the links whose download fails),
\* dbok (the INSERT and commit work), hb (driver.back())
Envs == [snap : BOOLEAN, src : BOOLEAN, failed : SUBSET (1..3), dbok : BOOLEAN,
         hb : { "ok", "second", "raise" }]

Calm == [snap |-> TRUE, src |-> TRUE, failed |-> {}, dbok |-> TRUE, hb |-> "ok"]

\* the environments that differ from Calm only at primitives the row calls
EnvsFor(look, detail) ==
    IF ~look.found THEN { Calm }
    ELSE LET links == PdfLinks(detail.hrefs, 1)
         IN  { e \in Envs :
                 /\ e.failed \subseteq { links[k] : k \in 1..Len(links) }
                 /\ ~e.src => (e.failed = {} /\ e.dbok)
                 /\ (~e.src \/ ~e.dbok \/ detail.back # {}) => e.hb = "ok" }

Result(raised, loc, rows, data, steps, failed) ==
    [raised |-> raised, loc |-> loc, rows |-> rows, data |-> data,
     steps |-> steps, failed |-> failed]

\* NotFoundResult returning None: perform_capture appends nothing
NotFoundDropsRow(here, case) ==
    Result(FALSE, here, << >>, << >>, << "lookup" >>, {})

\* NotFoundResult that still writes the row to storage
NotFoundStillStores(here, case) ==
    Result(FALSE, here,
           << DbRow(case, [k \in DetailKeys |-> None], << >>, << >>) >>,
           << FailedRecord(case) >>, << "lookup", "store" >>, {})

\* the else branch of capture_case_details_automated: no View button
NotFoundResult(here, case) ==
    Result(FALSE, here, << >>, << FailedRecord(case) >>, << "lookup" >>, {})

\* PdfPath that hands the path over whether or not the snapshot was saved
PdfPathAlways(case, pdf_saved) == << "serial_" >> \o case.serial

\* the main document handed to save_case_to_db: pdf_path if pdf_saved else None
PdfPath(case, pdf_saved) == IF pdf_saved THEN << "serial_" >> \o case.serial ELSE << >>

\* capture_case_details_automated(driver, case, ...) under environment e, the
\* browser showing `here`: data is the returned dict (none when it raised)
CaptureCaseDetailsAutomated(here, case, e) ==
    LET look == FindAndClickViewButton(DomRows(here), case.serial)
    IN  IF ~look.found
        THEN NotFoundResult(here, case)
        ELSE
        LET opened   == AfterLookup(here, look)
            detail   == DomRows(here)[look.row].detail
            s1       == << "lookup", "click", "snapshot" >>
            f1       == IF e.snap THEN {} ELSE { "snapshot" }
            details  == ExtractCaseDetails(detail)
            links    == PdfLinks(detail.hrefs, 1)
            pdfs     == Downloaded(detail.hrefs, links, e.failed)
            f2       == f1 \cup (IF \E k \in 1..Len(links) : links[k] \in e.failed
                                 THEN { "fetch" } ELSE {})
            s2       == s1 \o << "extract" >> \o [k \in 1..Len(links) |-> "fetch"]
            row      == DbRow(case, details, PdfPath(case, e.snap), pdfs)
            back     == ClickBackButton(detail.back, e.hb)
            s3       == s2 \o << "store" >> \o back.steps
            f3       == f2 \cup (IF detail.back = {} /\ e.hb # "ok" THEN { "back" } ELSE {})
        IN  IF ~e.src
            THEN Result(TRUE, opened, << >>, << >>, s1 \o << "page_source" >>,
                        f1 \cup { "page_source" })
            ELSE IF ~e.dbok
            THEN Result(TRUE, opened, << >>, << >>, s2 \o << "store" >>, f2 \cup { "store" })
            ELSE IF ~back.returned
            THEN Result(TRUE, opened, << row >>, << >>, s3, f3)
            ELSE Result(FALSE, Loc("list", here.pg, 0), << row >>,
                        << CompletedRecord(case, details, e.snap, pdfs) >>, s3, f3)

----------------------------------------------------------------------------
(* Step 4: the capture batch *)

\* "Start Automatic Capture of All Cases" clicked in display_scraped_cases
StartCapture ==
    /\ run = "idle"
    /\ current_step = 4
    /\ ~capture_in_progress
    /\ hist.batches < MaxBatches
    /\ capture_in_progress' = TRUE
    /\ current_case_index' = 0
    /\ captured_cases' = << >>
    /\ run' = "pending"
    /\ hist' = [hist EXCEPT !.batches = @ + 1, !.attempts = << >>]
    /\ UNCHANGED << probe, site, today, current_step, matches, all_cases, driver,
                    captcha_value, drivers, page_index, scraped, db, notice, trace >>

\* CurrentCase taken from the end of matches
CurrentCaseFromEnd == matches[Len(matches) - current_case_index]

\* case = matches[current_index]
CurrentCase == matches[current_case_index + 1]

\* NextCaseIndex skipping the row after the one processed
SkipCaseIndex(i) == i + 2

\* st.session_state.current_case_index += 1
NextCaseIndex(i) == i + 1

\* perform_capture, current_index < len(matches): one row, then st.rerun().
\* An exception that leaves capture_case_details_automated ends the script run.
PerformCaptureRow ==
    /\ run = "pending"
    /\ current_step = 4
    /\ capture_in_progress
    /\ current_case_index < Len(matches)
    /\ \E case \in { CurrentCase } :
       \E look \in { FindAndClickViewButton(DomRows(Here), case.serial) } :
       \E detail \in { IF look.found THEN DomRows(Here)[look.row].detail ELSE DetailA } :
       \E e \in EnvsFor(look, detail) :
       \E r \in { CaptureCaseDetailsAutomated(Here, case, e) } :
         /\ hist.faults + Cardinality(r.failed) <= MaxFaults
         /\ drivers' = Moved(r.loc)
         /\ db' = db \o r.rows
         /\ trace' = r.steps
         /\ hist' = [hist EXCEPT
                       !.faults = @ + Cardinality(r.failed),
                       !.attempts = Append(@, [idx |-> current_case_index,
                                               found |-> look.found,
                                               pg |-> Here.pg,
                                               kind |-> Here.kind,
                                               before |-> Here,
                                               after |-> AfterLookup(Here, look),
                                               strategy |-> look.strategy,
                                               row |-> look.row,
                                               failed |-> r.failed,
                                               fetch_failed |-> e.failed,
                                               stored |-> Len(r.rows),
                                               raised |-> r.raised])]
         /\ IF r.raised
            THEN /\ run' = "idle"
                 /\ notice' = "Uncaught exception"
                 /\ UNCHANGED << captured_cases, current_case_index >>
            ELSE /\ captured_cases' = captured_cases \o r.data
                 /\ current_case_index' = NextCaseIndex(current_case_index)
                 /\ run' = "pending"
                 /\ notice' = IF look.found THEN "Successfully captured!"
                               ELSE "Could not find View button"
    /\ UNCHANGED << probe, site, today, current_step, matches, all_cases, driver,
                    capture_in_progress, captcha_value, page_index, scraped >>

\* perform_capture, else branch: the batch is complete
PerformCaptureDone ==
    /\ run = "pending"
    /\ current_step = 4
    /\ capture_in_progress
    /\ current_case_index >= Len(matches)
    /\ capture_in_progress' = FALSE
    /\ run' = "idle"
    /\ notice' = "Automatic capture completed!"
    /\ UNCHANGED << probe, site, today, current_step, captured_cases, matches, all_cases,
                    driver, current_case_index, captcha_value, drivers, page_index,
                    scraped, db, trace, hist >>

----------------------------------------------------------------------------

Next ==
    \/ ClickInitialize
    \/ UserRerun
    \/ Render
    \/ SubmitCaptcha
    \/ ProcessScrapingStart
    \/ ScrapePage
    \/ ScrapeCeiling
    \/ FilterCases
    \/ StartCapture
    \/ PerformCaptureRow
    \/ PerformCaptureDone

Spec == Init /\ [][Next]_vars

----------------------------------------------------------------------------
(* extract_case_details applied to page texts *)

InitText ==
    /\ probe \in Probes
    /\ site = << 1 >>
    /\ today = 10
    /\ current_step = 1
    /\ captured_cases = << >>
    /\ matches = << >>
    /\ all_cases = << >>
    /\ driver = 0
    /\ capture_in_progress = FALSE
    /\ current_case_index = 0
    /\ captcha_value = ""
    /\ drivers = << >>
    /\ run = "idle"
    /\ page_index = 0
    /\ scraped = << >>
    /\ db = << >>
    /\ notice = ""
    /\ trace = << >>
    /\ hist = NoHist

\* extract_case_details reads the text, and the text with the pairs swapped
ExtractCaseDetailsOfText ==
    /\ ~probe.done
    /\ probe' = [probe EXCEPT !.done = TRUE,
                              !.details = ExtractFromText(probe.text),
                              !.swapped_details = ExtractFromText(probe.swapped)]
    /\ UNCHANGED << site, today, session, drivers, run, page_index, scraped, db,
                    notice, trace, hist >>

NextText == ExtractCaseDetailsOfText

SpecText == InitText /\ [][NextText]_vars

----------------------------------------------------------------------------
(* extract_cases_from_soup on the rows of a listing table *)

\* row_text is a sequence of atoms that blanks separate: a label, a word, a
\* number, a numeric date, a colon

\* the atoms DATE_LABEL_REGEX matches (re.IGNORECASE)
DateLabels == { "Next Hearing Date", "next date" }
\* the atoms with the substring "Next"
NextWords == { "Next Hearing Date", "Next" }
\* the atoms of the shape \d{1,2}[\/\-\.]\d{1,2}[\/\-\.]\d{2,4}
NumericDates == { "12/11/2026", "05/13/2026", "32/13/2024" }

\* the three numbers of a numeric date
Parts(a) ==
    CASE a = "12/11/2026" -> << 12, 11, 2026 >>
      [] a = "05/13/2026" -> << 5, 13, 2026 >>
      [] OTHER            -> << 32, 13, 2024 >>

\* int() of an atom of digits, -1 for any other atom
Number(a) ==
    CASE a = "7" -> 7 [] a = "8" -> 8 [] a = "11" -> 11 [] a = "2026" -> 2026 [] OTHER -> -1

\* \d{1,2} followed by a blank: the last two digits of the atom
DayDigits(a) == IF Number(a) >= 0 THEN Number(a) % 100 ELSE -1

\* dateutil raised ValueError
Raised == -1

DaysIn(m) == IF m = 2 THEN 28 ELSE IF m \in { 4, 6, 9, 11 } THEN 30 ELSE 31

\* datetime.date(y, m, d)
DateValue(d, m, y) ==
    IF m \in 1..12 /\ d \in 1..DaysIn(m) THEN y * 10000 + m * 100 + d ELSE Raised

\* dateutil with dayfirst=True on three numbers, the last of four digits: day
\* first unless only the other order gives a month
ResolveYmd(a, b, y) ==
    IF a > 31 \/ b > 31 \/ a < 0 \/ b < 0 THEN Raised
    ELSE IF a > 12 \/ b <= 12 THEN DateValue(a, b, y)
    ELSE DateValue(b, a, y)

\* dateparser.parse(token, dayfirst=True).date() on a token of one numeric
\* date or of three atoms "D word YYYY"
DateutilParse(tok) ==
    IF Len(tok) = 1 THEN ResolveYmd(Parts(tok[1])[1], Parts(tok[1])[2], Parts(tok[1])[3])
    ELSE IF tok[2] = "November" THEN DateValue(DayDigits(tok[1]), 11, Number(tok[3]))
    ELSE ResolveYmd(DayDigits(tok[1]), Number(tok[2]), Number(tok[3]))

\* parse_date_nullable without its try/except
ParseUnguarded(tok) == DateutilParse(tok)

\* parse_date_nullable: None when the parser raises
parse_date_nullable(tok) ==
    IF DateutilParse(tok) = Raised THEN NoDate ELSE DateutilParse(tok)

NumericAt(t, i) == t[i] \in NumericDates

\* \d{1,2}\s+\w+\s+\d{4} matches from atom i on
WordyAt(t, i) ==
    /\ i + 2 <= Len(t)
    /\ DayDigits(t[i]) >= 0
    /\ t[i + 1] \in { "November", "Civil", "Next", "7", "8", "11", "2026" }
    /\ t[i + 2] = "2026"

\* token[0] of re.findall over the atoms from `from` on, << >> for no token;
\* wordy: the pattern has the "D word YYYY" alternative
FirstToken(t, from, wordy) ==
    LET hits == { i \in from..Len(t) : NumericAt(t, i) \/ (wordy /\ WordyAt(t, i)) }
        i    == First(hits)
    IN  IF hits = {} THEN << >>
        ELSE IF NumericAt(t, i) THEN << t[i] >>
        ELSE SubSeq(t, i, i + 2)

\* next_hearing_date of one row (Raised: an exception left parse_date_nullable)
NextHearingDate(t) ==
    LET m     == First({ i \in 1..Len(t) : t[i] \in DateLabels })
        token == IF m = 0 THEN << >> ELSE FirstToken(t, m + 1, TRUE)
        first == IF token = << >> THEN NoDate ELSE parse_date_nullable(token)
        scan  == FirstToken(t, 1, FALSE)
    IN  IF first # NoDate THEN first
        ELSE IF scan # << >> /\ \E i \in 1..Len(t) : t[i] \in NextWords
        THEN parse_date_nullable(scan)
        ELSE NoDate

\* the <tr> elements after the header row that have cells
DataRows(trs) == SelectSeq(Tail(trs), LAMBDA t : t # << >>)

\* extract_cases_from_soup: one dict per data row, in order
ExtractCasesFromSoup(trs) ==
    [i \in 1..Len(DataRows(trs)) |->
        [serial |-> DataRows(trs)[i][1],
         next_hearing_date |-> NextHearingDate(DataRows(trs)[i])]]

\* row texts: what stands before the dates, and two places for a date
RowStarts == { << >>, << "Next Hearing Date", ":" >>, << "next date" >>, << "Next" >>,
               << "Civil" >> }
DateBits == { << >>, << "12/11/2026" >>, << "05/13/2026" >>, << "32/13/2024" >>,
              << "11", "November", "2026" >>, << "11", "Civil", "2026" >>, << "2026" >> }
RowTexts == { << "7" >> \o x[1] \o x[2] \o x[3] : x \in RowStarts \X DateBits \X DateBits }

HeaderRow == << "Sr", "Case", "Next Hearing Date" >>
PlainRow == << "8", "Next Hearing Date", ":", "12/11/2026" >>

\* tables: the header, a row, and a second row before or after it
Tables ==
    { << HeaderRow, t >> : t \in RowTexts }
    \cup { << HeaderRow, x[1], x[2] >> : x \in RowTexts \X { PlainRow, << >> } }
    \cup { << HeaderRow, x[2], x[1] >> : x \in RowTexts \X { PlainRow, << >> } }

Unscraped(trs) == [trs |-> trs, done |-> FALSE, raised |-> FALSE, cases |-> << >>]

InitRows ==
    /\ probe \in { Unscraped(trs) : trs \in Tables }
    /\ site = << 1 >>
    /\ today = 10
    /\ current_step = 1
    /\ captured_cases = << >>
    /\ matches = << >>
    /\ all_cases = << >>
    /\ driver = 0
    /\ capture_in_progress = FALSE
    /\ current_case_index = 0
    /\ captcha_value = ""
    /\ drivers = << >>
    /\ run = "idle"
    /\ page_index = 0
    /\ scraped = << >>
    /\ db = << >>
    /\ notice = ""
    /\ trace = << >>
    /\ hist = NoHist

\* extract_cases_from_soup reads the table: it returns the cases, or an
\* exception leaves it
ExtractCasesOfTable ==
    /\ ~probe.done
    /\ \E cases \in { ExtractCasesFromSoup(probe.trs) } :
         IF \E i \in 1..Len(cases) : cases[i].next_hearing_date = Raised
         THEN probe' = [probe EXCEPT !.done = TRUE, !.raised = TRUE]
         ELSE probe' = [probe EXCEPT !.done = TRUE, !.cases = cases]
    /\ UNCHANGED << site, today, session, drivers, run, page_index, scraped, db,
                    notice, trace, hist >>

NextRows == ExtractCasesOfTable

SpecRows == InitRows /\ [][NextRows]_vars

----------------------------------------------------------------------------
(* Properties *)

Attempts == hist.attempts

Last(q) == q[Len(q)]

\* a capture batch was started and has reached the completed branch
BatchDone == hist.batches > 0 /\ ~capture_in_progress

\* no primitive other than the action-control lookup failed in the batch
NoStepFailed ==
    \A k \in 1..Len(Attempts) : Attempts[k].failed = {} /\ ~Attempts[k].raised

\* the rows of matches whose lookup returned not-found
LookupFailedRows ==
    { Attempts[k].idx + 1 : k \in { j \in 1..Len(Attempts) : ~Attempts[j].found } }

\* C1: a batch run to completion in which only action-control lookups failed
\* leaves one record per row of matches, in order; the record of a row is
\* FailedNoAction exactly when its lookup returned not-found, else Completed.
C1_FailedLookupIsolated ==
    (BatchDone /\ NoStepFailed) =>
        /\ Len(captured_cases) = Len(matches)
        /\ \A i \in 1..Len(matches) :
             /\ captured_cases[i].Serial_Number = matches[i].serial
             /\ captured_cases[i].Status =
                  IF i \in LookupFailedRows THEN "Failed - No View Button"
                  ELSE "Completed"

\* a finished batch of three rows in which only the middle row's lookup failed
C1_Witness ==
    /\ BatchDone
    /\ NoStepFailed
    /\ Len(matches) = 3
    /\ LookupFailedRows = { 2 }

\* C2: every row capture that was started has produced exactly one record
\* and moved the batch on to the next row, whichever step of it failed.
C2_EveryStartedRowRecorded ==
    /\ Len(Attempts) = Len(captured_cases)
    /\ hist.batches > 0 => current_case_index = Len(Attempts)

\* the workflow has left the browser for good: a finished batch, a scrape
\* without in-scope rows, an exception during scraping, a portal that did not load
Exited ==
    \/ BatchDone
    \/ /\ run = "idle"
       /\ notice \in { "No cases found with next hearing today or tomorrow",
                       "Error during scraping", "Error loading eCourts website" }

\* C3: on every exit path of the workflow every browser created by
\* setup_driver has been closed.
C3_SessionReleasedOnExit == Exited => LiveDrivers = {}

\* C4: at most one browser session is live at any time.
C4_AtMostOneLiveSession == Cardinality(LiveDrivers) <= 1

\* a row whose hearing date is today or tomorrow
InScope(c) ==
    c.next_hearing_date # NoDate /\ c.next_hearing_date \in { today, today + 1 }

\* C5: the filtered list is exactly the subsequence of the accumulated rows
\* whose hearing date is today or today + 1, in the original order; rows without
\* a date are left out.
C5_FilterSelectsInScopeRows == matches = SelectSeq(all_cases, InScope)

\* a scrape whose accumulated rows hold an undated row and a dated out-of-scope
\* row, with a rejected row between two accepted ones
C5_Witness ==
    /\ Len(matches) >= 2
    /\ \E i, j, k \in 1..Len(all_cases) :
         /\ i < j /\ j < k
         /\ InScope(all_cases[i]) /\ ~InScope(all_cases[j]) /\ InScope(all_cases[k])
    /\ \E i \in 1..Len(all_cases) : all_cases[i].next_hearing_date = NoDate
    /\ \E i \in 1..Len(all_cases) :
         all_cases[i].next_hearing_date \notin { NoDate, today, today + 1 }

\* C6: the i-th record of captured_cases belongs to the i-th row of matches, and
\* a row is started only when every row before it has produced its record.
C6_RowsInFilterOrder ==
    /\ Len(captured_cases) <= Len(matches)
    /\ \A i \in 1..Len(captured_cases) :
         /\ captured_cases[i].Serial_Number = matches[i].serial
         /\ captured_cases[i].Court_Name = matches[i].court_name
         /\ captured_cases[i].Next_Hearing_Date = matches[i].next_hearing_date
    /\ \A k \in 1..Len(Attempts) :
         Attempts[k].idx = Cardinality({ j \in 1..(k - 1) : ~Attempts[j].raised })

\* a batch under way with the records of two different rows
C6_Witness ==
    /\ capture_in_progress
    /\ Len(captured_cases) >= 2
    /\ captured_cases[1].Serial_Number # captured_cases[2].Serial_Number

\* C7: the pagination loop extracts at most max_pages listing pages, and every
\* iteration that stays in the loop raises page_index, which never passes
\* max_pages + 1: the loop ends after at most max_pages iterations.
C7_PaginationBounded ==
    /\ [](hist.extracted <= max_pages /\ page_index <= max_pages + 1)
    /\ [][(run = "scraping" /\ run' = "scraping") => page_index' = page_index + 1]_vars

\* the loop left at the ceiling: ten pages extracted, a next click on every one
C7_Witness ==
    /\ run = "filtering"
    /\ hist.extracted = max_pages
    /\ hist.clicks = max_pages

\* C8: no two accumulated rows carry the same serial label.
C8_SerialLabelsUnique ==
    \A i, j \in 1..Len(all_cases) :
        i # j => all_cases[i].serial # all_cases[j].serial

\* C9: a row capture whose lookup returns not-found appends a FailedNoAction
\* record with the five detail fields absent, document-saved false and zero
\* attachments, calls no primitive after the lookup, writes nothing to storage,
\* leaves the browser where it was and hands over to the next row.
C9_FailedLookupSkipsRow ==
    [][(Len(hist'.attempts) = Len(hist.attempts) + 1 /\ ~Last(hist'.attempts).found) =>
         /\ captured_cases' = Append(captured_cases,
                [Serial_Number |-> CurrentCase.serial,
                 Details |-> [k \in DetailKeys |-> None],
                 Court_Name |-> CurrentCase.court_name,
                 Next_Hearing_Date |-> CurrentCase.next_hearing_date,
                 PDF_Saved |-> FALSE,
                 Additional_PDFs |-> 0,
                 Status |-> "Failed - No View Button"])
         /\ trace' = << "lookup" >>
         /\ db' = db
         /\ drivers' = drivers
         /\ current_case_index' = current_case_index + 1
         /\ run' = "pending"]_vars

\* a failed lookup has been recorded and rows remain to be processed
C9_Witness ==
    /\ Attempts # << >>
    /\ ~Last(Attempts).found
    /\ Last(captured_cases).Status = "Failed - No View Button"
    /\ run = "pending"
    /\ current_case_index < Len(matches)

Count(q, x) == Cardinality({ k \in 1..Len(q) : q[k] = x })

\* the latest row capture opened a detail page, its snapshot failed and no
\* exception ended it
SnapshotFailed ==
    /\ Attempts # << >>
    /\ Last(Attempts).found
    /\ "snapshot" \in Last(Attempts).failed
    /\ ~Last(Attempts).raised

\* C10: a row whose snapshot failed is recorded as Completed with
\* document-saved false; its fields were extracted, every document link was
\* attempted, the row was written to storage without a main document path, and
\* the return navigation ran.
C10_SnapshotFailureDegrades ==
    SnapshotFailed =>
        LET a      == Last(Attempts)
            detail == SitePage(a.pg).rows[a.row].detail
            rec    == Last(captured_cases)
            stored == Last(db)
        IN  /\ Len(captured_cases) = a.idx + 1
            /\ rec.Status = "Completed"
            /\ rec.PDF_Saved = FALSE
            /\ rec.Serial_Number = matches[a.idx + 1].serial
            /\ rec.Details = [k \in DetailKeys |-> detail.fields[k]]
            /\ Count(trace, "extract") = 1
            /\ Count(trace, "fetch") =
                 Cardinality({ k \in 1..Len(detail.hrefs) :
                                 detail.hrefs[k].ext \in { "pdf", "PDF" } })
            /\ Count(trace, "store") = 1
            /\ stored.serial = rec.Serial_Number
            /\ stored.pdf_path = << >>
            /\ Count(trace, "back_control") + Count(trace, "history_back") >= 1
            /\ Here.kind = "list"

\* a snapshot failure on a detail page that carries document links
C10_Witness ==
    /\ SnapshotFailed
    /\ Last(captured_cases).Additional_PDFs > 0
    /\ Last(captured_cases).Status = "Completed"

\* the latest row capture opened a detail page and ran to its end
RowCompleted ==
    /\ Attempts # << >>
    /\ Last(Attempts).found
    /\ ~Last(Attempts).raised

\* the numbers of the links of a detail page that end in .pdf, in page order
DocLinks(detail) ==
    SelectSeq([k \in 1..Len(detail.hrefs) |-> k],
              LAMBDA k : detail.hrefs[k].ext \in { "pdf", "PDF" })

\* C11: the attachment list handed to storage holds the local paths of exactly
\* the document links whose fetch worked, in link order; every document link
\* was attempted, and the row is recorded as Completed with that many
\* attachments (an empty list when every fetch failed).
C11_FetchFailuresIsolated ==
    RowCompleted =>
        LET a      == Last(Attempts)
            detail == SitePage(a.pg).rows[a.row].detail
            kept   == SelectSeq(DocLinks(detail), LAMBDA k : k \notin a.fetch_failed)
        IN  /\ Last(db).additional_pdfs =
                 [i \in 1..Len(kept) |->
                     << "downloads", detail.hrefs[kept[i]].base, detail.hrefs[kept[i]].ext >>]
            /\ Count(trace, "fetch") = Len(DocLinks(detail))
            /\ Last(captured_cases).Status = "Completed"
            /\ Last(captured_cases).Additional_PDFs = Len(kept)

\* two document links, the first fetch failed and the second worked
C11_Witness ==
    /\ RowCompleted
    /\ Last(Attempts).fetch_failed = { 1 }
    /\ Len(Last(db).additional_pdfs) = 1
    /\ Count(trace, "fetch") = 2

\* the latest row capture opened a detail page
RowOpened == Attempts # << >> /\ Last(Attempts).found

\* C12: once a detail page was opened the workflow returns to the listing by
\* exactly one navigation: the back selectors are tried in list order and the
\* first one present is clicked, history-back is used only when none is
\* present, never both, and the row is recorded as Completed either way.
C12_OneReturnNavigation ==
    RowOpened =>
        LET a      == Last(Attempts)
            detail == SitePage(a.pg).rows[a.row].detail
            clicks == Count(trace, "back_control")
            backs  == Count(trace, "history_back")
            finds  == SelectSeq(trace, LAMBDA x : \E k \in 1..Len(back_selectors) : x = back_selectors[k])
        IN  /\ clicks + backs = 1
            /\ clicks = 1 => /\ detail.back # {}
                             /\ finds = SubSeq(back_selectors, 1, First(detail.back))
            /\ backs = 1 => /\ detail.back = {}
                            /\ finds = back_selectors
            /\ Here = Loc("list", a.pg, 0)
            /\ Len(captured_cases) = a.idx + 1
            /\ captured_cases[a.idx + 1].Status = "Completed"

\* the same statement for the rows whose capture raised nothing
C12_ReturnWhenNothingRaised ==
    (RowOpened /\ ~Last(Attempts).raised) => C12_OneReturnNavigation

\* C13: swapping the Case Type pair and the Filing Number pair of a page text
\* leaves the two extracted values as they were.
C13_LabelOrderIndependent ==
    probe.done =>
        /\ probe.details["Case Type"] = probe.swapped_details["Case Type"]
        /\ probe.details["Filing Number"] = probe.swapped_details["Filing Number"]

\* the 16-character alphanumeric tokens of a text that stand alone
Standalone(t) ==
    { i \in 1..Len(t) : /\ t[i] \in UpperTokens \cup MixedTokens
                        /\ (i = 1 \/ t[i - 1] = " ")
                        /\ (i = Len(t) \/ t[i + 1] \in { " ", cnr_note }) }

\* the tokens that the CNR note follows
Noted(t) ==
    { i \in 1..Len(t) : /\ t[i] \in UpperTokens \cup MixedTokens
                        /\ (i = 1 \/ t[i - 1] = " ")
                        /\ \E j \in (i + 1)..Len(t) :
                             /\ t[j] = cnr_note
                             /\ \A k \in (i + 1)..(j - 1) : t[k] = " " }

\* C14: the CNR number is the token the note follows when there is one, else
\* the first standalone 16-character alphanumeric token, else absent.
C14_IdentifierExtraction ==
    (probe.done /\ probe.text \in CnrTexts) =>
        LET t   == probe.text
            cnr == probe.details["CNR Number"]
        IN  IF Noted(t) # {} THEN cnr = << t[First(Noted(t))] >>
            ELSE IF Standalone(t) # {} THEN cnr = << t[First(Standalone(t))] >>
            ELSE cnr = Absent

FailedToInitialize == "Failed to initialize Chrome driver"

\* C15: a click whose setup_driver fails stores no session handle and leaves
\* the step at 1; step 1 is left only by a click that created a browser and
\* stored its handle, so every later step runs with a live stored session.
C15_AcquisitionFailureStopsWorkflow ==
    /\ [](current_step > 1 => driver \in LiveDrivers)
    /\ [][ /\ (notice' = FailedToInitialize /\ notice # FailedToInitialize)
              => UNCHANGED << driver, drivers, current_step, run >>
           /\ (current_step = 1 /\ current_step' # 1)
              => /\ Len(drivers') = Len(drivers) + 1
                 /\ driver' = Len(drivers')
                 /\ driver' \in { d \in 1..Len(drivers') : drivers'[d].alive } ]_vars

\* the session bootstrap just failed: nothing stored, still at step 1
C15_Witness ==
    /\ notice = FailedToInitialize
    /\ driver = 0
    /\ drivers = << >>
    /\ current_step = 1

\* C16: the stages run in order.  Scraping runs only at step 3, with a stored
\* live session showing the portal and a non-empty CAPTCHA answer; step 4 is
\* entered only from step 3 with a non-empty filtered list; and the step only
\* ever moves to the next stage or from 3 back to 1.
C16_StagesInOrder ==
    /\ [](run \in { "scraping", "filtering" } =>
            /\ current_step = 3
            /\ driver \in LiveDrivers
            /\ Here.kind # "blank"
            /\ captcha_value # "")
    /\ [](current_step >= 3 => captcha_value # "")
    /\ [](current_step = 4 => matches # << >>)
    /\ [][ /\ current_step' # current_step =>
                \/ current_step' = current_step + 1
                \/ current_step = 3 /\ current_step' = 1
           /\ (current_step' = 4 /\ current_step # 4) =>
                /\ run = "filtering"
                /\ matches' = FilterMatches(scraped, today)
                /\ matches' # << >> ]_vars

\* the capture stage was reached
C16_Witness ==
    /\ current_step = 4
    /\ capture_in_progress
    /\ captcha_value # ""
    /\ matches # << >>

\* the rows of the portal that row dict c was extracted from and that carry a
\* link to act on, as << listing page, row >> pairs
OwnControls(c) ==
    { x \in (1..Len(site)) \X (1..3) :
        /\ x[2] <= Len(SitePage(x[1]).rows)
        /\ LET tr == SitePage(x[1]).rows[x[2]]
           IN  /\ tr.serial = c.serial
               /\ tr.date = c.next_hearing_date
               /\ \E k \in 1..Len(tr.links) : LinkText(tr.links[k]) # << >> }

\* C17: whichever listing page a row was extracted from, when that page carries
\* an action control for the row the capture finds this control (the browser
\* shows a page holding the row when the lookup runs) and the row is Completed.
C17_SerialRelocatesAcrossPages ==
    hist.faults = 0 =>
        \A n \in 1..Len(Attempts) :
            LET a == Attempts[n]
                c == matches[a.idx + 1]
            IN  OwnControls(c) # {} =>
                    /\ a.found
                    /\ << a.pg, a.row >> \in OwnControls(c)
                    /\ captured_cases[a.idx + 1].Status = "Completed"

\* one iteration of the pagination loop read a page
PageScraped == run = "scraping" /\ hist'.extracted = hist.extracted + 1

\* C18: a next-page control is clicked only when it is enabled; on a page whose
\* control (the 'Next' link or the class/ARIA fallback) is not enabled nothing
\* is clicked, the browser stays where it is, the loop ends and the rows
\* gathered so far go on to the filter.
C18_NextClickedOnlyWhenEnabled ==
    [][ PageScraped =>
          /\ hist'.clicks = hist.clicks + 1 => NextControl(Here.pg) \in { "text", "class" }
          /\ NextControl(Here.pg) \in { "textDisabled", "classDisabled" } =>
               /\ hist'.clicks = hist.clicks
               /\ drivers' = drivers
               /\ run' = "filtering"
               /\ scraped' = scraped \o ExtractCases(Here) ]_vars

\* C19: the lookup uses strategy 1 (a View link whose row text contains the
\* label) whenever it finds something, else strategy 2 (a View link in the
\* first row with a cell containing the label), and strategy 3 (any link with
\* text in that row) only when both found nothing; when all three find
\* nothing the result is not-found, nothing is raised and the row is recorded
\* as failed.
C19_StrategiesInPriorityOrder ==
    Attempts # << >> =>
        LET a      == Last(Attempts)
            serial == matches[a.idx + 1].serial
            trs    == IF a.kind = "list" THEN SitePage(a.pg).rows ELSE << >>
            byText == { i \in 1..Len(trs) :
                          /\ Contains(RowText(trs[i]), serial)
                          /\ \E k \in 1..Len(trs[i].links) : trs[i].links[k] = "View" }
            cells  == { i \in 1..Len(trs) :
                          \/ Contains(trs[i].serial, serial)
                          \/ Contains(DateText(trs[i].date), serial)
                          \/ \E k \in 1..Len(trs[i].links) :
                               Contains(LinkText(trs[i].links[k]), serial) }
            r      == First(cells)
            inRow  == r # 0 /\ \E k \in 1..Len(trs[r].links) : trs[r].links[k] = "View"
            anyOne == r # 0 /\ \E k \in 1..Len(trs[r].links) : trs[r].links[k] # ""
        IN  /\ a.strategy = 1 <=> byText # {}
            /\ a.strategy = 2 <=> (byText = {} /\ inRow)
            /\ a.strategy = 3 <=> (byText = {} /\ ~inRow /\ anyOne)
            /\ a.strategy = 1 => a.row = First(byText)
            /\ a.strategy \in { 2, 3 } => a.row = r
            /\ a.found <=> a.strategy # 0
            /\ ~a.found =>
                 /\ ~a.raised
                 /\ captured_cases[a.idx + 1].Status = "Failed - No View Button"

\* strategy 3 clicked a link of the labelled row although another row has a
\* View link: strategies 1 and 2 had found nothing
C19_Witness ==
    /\ Attempts # << >>
    /\ Last(Attempts).strategy = 3
    /\ \E i \in 1..Len(SitePage(Last(Attempts).pg).rows) :
         HasView(SitePage(Last(Attempts).pg).rows[i])

\* a lookup that strategy 2 settled
Strategy2Used == \E n \in 1..Len(Attempts) : Attempts[n].strategy = 2

\* C20: the lookups have no side effect: the browser displays the same page
\* when the action-control lookup returns as when it was called, and when
\* the back lookup returns; every click is made by the caller afterwards.
C20_LocatorHasNoSideEffect ==
    \A n \in 1..Len(Attempts) :
        /\ Attempts[n].after = Attempts[n].before
        /\ Count(trace, "back_control") = 0

\* one more row capture was started by this step
RowAttempted == Len(hist'.attempts) = Len(hist.attempts) + 1

\* C20 as the code has it: the lookups click what they resolve.  A lookup that
\* finds nothing leaves the browser as it was; one that finds a control has
\* clicked it when it returns, so the browser is on the detail page of that
\* row before the caller takes any step; the back lookup likewise clicks the
\* control it finds or goes back in history itself, and the caller adds no
\* click of its own.
C20_LocatorClicksWhatItFinds ==
    [][ RowAttempted =>
          LET a      == hist'.attempts[Len(hist'.attempts)]
              opened == Loc("detail", a.pg, a.row)
              backs  == Count(trace', "back_control") + Count(trace', "history_back")
          IN  /\ ~a.found => /\ a.after = a.before
                             /\ drivers' = drivers
                             /\ trace' = << "lookup" >>
              /\ a.found => /\ a.after = opened
                            /\ a.before.kind = "list"
                            /\ SubSeq(trace', 1, 2) = << "lookup", "click" >>
                            /\ Count(trace', "click") = 1
                            /\ backs <= 1
                            /\ drivers'[driver].loc =
                                 IF backs = 1 THEN Loc("list", a.pg, 0) ELSE opened ]_vars

\* the capture raised right after the lookup returned: the browser is already
\* on the detail page the lookup opened
C20_Witness ==
    /\ Attempts # << >>
    /\ Last(Attempts).found
    /\ Last(Attempts).failed = { "page_source" }
    /\ Here = Loc("detail", Last(Attempts).pg, Last(Attempts).row)
    /\ Last(Attempts).before = Loc("list", Last(Attempts).pg, 0)

\* where step x first occurs in a trace, 0 for never
Pos(q, x) == First({ i \in 1..Len(q) : q[i] = x })

\* where the return navigation that worked occurs in a trace, 0 for never
ReturnPos(q) == First({ i \in 1..Len(q) : q[i] \in { "back_control", "history_back" } })

\* C21: within a row the steps run in the order open detail, snapshot, extract
\* fields, download attachments, return to listing, record: storage is
\* written, and the record appended, only after the return navigation.
C21_RecordAfterReturn ==
    RowCompleted =>
        /\ Pos(trace, "click") < Pos(trace, "snapshot")
        /\ Pos(trace, "snapshot") < Pos(trace, "extract")
        /\ \A i \in 1..Len(trace) : trace[i] = "fetch" =>
             (Pos(trace, "extract") < i /\ i < ReturnPos(trace))
        /\ Pos(trace, "extract") < ReturnPos(trace)
        /\ ReturnPos(trace) < Pos(trace, "store")

\* every date-shaped token of a row, of either shape
DateTokens(t) ==
    { << t[i] >> : i \in { j \in 1..Len(t) : NumericAt(t, j) } }
    \cup { SubSeq(t, i, i + 2) : i \in { j \in 1..Len(t) : WordyAt(t, j) } }

\* C22: the first date token after a hearing-date label is the row's date when
\* it parses; otherwise a row whose text contains "Next" gets its date from a
\* date-shaped token of the row (D/M/Y or D Month Y: the first such token, or
\* any one that parses), and every other row has no date.
C22_HearingDateExtraction ==
    probe.done =>
        \A i \in 1..Len(probe.cases) :
            LET t     == DataRows(probe.trs)[i]
                date  == probe.cases[i].next_hearing_date
                m     == First({ k \in 1..Len(t) : t[k] \in DateLabels })
                token == IF m = 0 THEN << >> ELSE FirstToken(t, m + 1, TRUE)
                good  == { DateutilParse(x) : x \in DateTokens(t) } \ { Raised }
                scan  == FirstToken(t, 1, TRUE)
                first == IF scan = << >> \/ DateutilParse(scan) = Raised
                         THEN NoDate ELSE DateutilParse(scan)
            IN  IF token # << >> /\ DateutilParse(token) # Raised
                THEN date = DateutilParse(token)
                ELSE IF \E k \in 1..Len(t) : t[k] \in NextWords
                THEN date \in { first } \cup (IF good = {} THEN { NoDate } ELSE good)
                ELSE date = NoDate

\* the rows none of whose date-shaped tokens parses
Dateless(t) == \A x \in DateTokens(t) : DateutilParse(x) = Raised

\* C23: no exception leaves the extraction; every data row is emitted, in
\* order, also after a row with an invalid date, and a row with no date
\* token that parses has no date.
C23_BadDatesGiveNoDate ==
    probe.done =>
        /\ ~probe.raised
        /\ Len(probe.cases) = Len(DataRows(probe.trs))
        /\ \A i \in 1..Len(probe.cases) :
             /\ probe.cases[i].serial = DataRows(probe.trs)[i][1]
             /\ Dateless(DataRows(probe.trs)[i]) => probe.cases[i].next_hearing_date = NoDate

\* a row with the invalid date 32/13/2024 was emitted without a date, and the
\* row after it with its date
C23_Witness ==
    /\ probe.done
    /\ probe.trs = << HeaderRow, << "7", "Next Hearing Date", ":", "32/13/2024" >>, PlainRow >>
    /\ Len(probe.cases) = 2
    /\ probe.cases[1].next_hearing_date = NoDate
    /\ probe.cases[2].next_hearing_date = 20261112

\* C24: the control clicked for serial label L lies in the row whose serial
\* label is exactly L, also when another row's text contains L (stated here
\* for lookups on a page that holds a row labelled L).
C24_OpenedRowIsOwnRow ==
    RowOpened =>
        LET a   == Last(Attempts)
            trs == SitePage(a.pg).rows
            L   == matches[a.idx + 1].serial
        IN  (\E i \in 1..Len(trs) : trs[i].serial = L) => trs[a.row].serial = L

\* how often save_case_to_db was called for row i of the batch
Writes(i) ==
    Cardinality({ n \in 1..Len(Attempts) : Attempts[n].idx = i /\ Attempts[n].stored = 1 })

\* C25: within a batch storage is written exactly once for every row recorded
\* as Completed and never for a row recorded as failed, whatever reruns and
\* exceptions occurred.
C25_StoredOncePerCompletedRow ==
    \A i \in 1..Len(captured_cases) :
        /\ captured_cases[i].Status = "Completed" => Writes(i - 1) = 1
        /\ captured_cases[i].Status = "Failed - No View Button" => Writes(i - 1) = 0

\* C26: every page the paginator navigates to has its rows extracted: when
\* pagination stops, at the ceiling too, there was one next-page click fewer
\* than pages extracted.
C26_EveryVisitedPageExtracted ==
    run = "filtering" => hist.clicks = hist.extracted - 1

\* C27: while a batch is in progress the index stays within 0..len(matches)
\* and captured_cases holds exactly one record per row already processed,
\* whatever the rows' outcomes and whatever reruns happened.
C27_IndexCountsRecords ==
    capture_in_progress =>
        /\ 0 <= current_case_index
        /\ current_case_index <= Len(matches)
        /\ Len(captured_cases) = current_case_index

\* a batch still in progress after a row without a view control, a row that
\* raised and was retried, and a completed row
C27_Witness ==
    /\ capture_in_progress
    /\ current_case_index >= 2
    /\ \E n \in 1..Len(Attempts) : Attempts[n].raised
    /\ \E i \in 1..Len(captured_cases) : captured_cases[i].Status = "Completed"
    /\ \E i \in 1..Len(captured_cases) :
           captured_cases[i].Status = "Failed - No View Button"

\* C28: a started batch of N rows finishes after exactly N row-processing
\* runs, a row whose primitive returned an error included.
C28_BatchEndsAfterNRows ==
    BatchDone => Len(Attempts) = Len(matches)

====
